---- MODULE Spec2Model ----
(***************************************************************************)
(* Model of gosense's engine pipeline (internal/engine/engine.go):         *)
(* Engine.Start wires generateData -> dataChan -> processBatches ->        *)
(* batchChan -> publishWorker(s) -> Publisher, and drives the shutdown.    *)
(* Every goroutine is a small program-counter machine; a Go select with    *)
(* several ready cases is a nondeterministic choice among them.            *)
(***************************************************************************)
EXTENDS Integers, Sequences, FiniteSets, TLC

\* ---------------------------------------------------------------- bounds
\* Number of envelopes the generator may produce in one run.
MaxEnvelopes == 3
\* Largest Config.BatchSize explored (1..MaxBatchSize).
MaxBatchSize == 2
\* Largest Config.MaxWorkers explored (1..MaxWorkerCount).
MaxWorkerCount == 2
\* Capacity of dataChan (make(chan SensorData[T], 100)), scaled down.
DataChanCap == 2
\* Capacity of batchChan (make(chan []SensorData[T], 10)), scaled down.
BatchChanCap == 2

VARIABLES
    config,          \* Engine.config: [BatchSize, MaxWorkers]
    ctxDone,         \* ctx.Done() is closed
    dataChan,        \* buffered contents of dataChan (envelope = its counter)
    dataChanClosed,  \* close(dataChan) has happened
    batchChan,       \* buffered contents of batchChan
    batchChanClosed, \* close(batchChan) has happened
    genPC,           \* generateData: "select" | "send" | "done"
    counter,         \* generateData: counter
    sensorData,      \* generateData: envelope built on the last tick
    genTicker,       \* generateData: ticker.C holds a tick
    batchPC,         \* processBatches: "select" | "sendFull" | "sendTick"
                     \*   | "sendCancel" | "sendClosed" | "done"
    batch,           \* processBatches: batch
    batchTicker,     \* processBatches: batchTicker.C holds a tick
    workerPC,        \* publishWorker i: "select" | "publish" | "publishing"
                     \*   | "done"
    startPC,         \* Start: "waitCtx" | "waitData" | "waitBatch"
                     \*   | "waitPublish" | "closing" | "returned"
    closeCalls,      \* number of calls of publisher.Close
    closeErr,        \* publisher.Close returned an error
    startErr,        \* Start returned a non-nil error
    accepted,        \* history: envelopes sent on dataChan, in order
    acceptedAtCancel,\* history: value of accepted when ctx was cancelled
    taken,           \* history: envelopes processBatches received
    emitted,         \* history: batches sent on batchChan, in order
    delivered,       \* history: batches passed to PublishBatch, in call order
    publishErrors,   \* history: number of PublishBatch calls that failed
    workerBatch,     \* publishWorker i: batch (empty outside a receive)
    sinkCalls,       \* history: Publisher methods the engine has called
    inProgress,      \* number of PublishBatch calls that have not returned
    envLimit,        \* number of ticks the run's production ticker delivers
    call             \* last call of the construction API: op, in, out

vars == <<config, ctxDone, dataChan, dataChanClosed, batchChan,
          batchChanClosed, genPC, counter, sensorData, genTicker, batchPC,
          batch, batchTicker, workerPC, startPC, closeCalls, closeErr,
          startErr, accepted, acceptedAtCancel, taken, emitted, delivered,
          publishErrors, workerBatch, sinkCalls, inProgress, envLimit,
          call>>

\* the zero value of SensorData[T].ID
NoData == ""

\* no call of the construction API has been made
NoCall == [op |-> "none"]

Workers == 1..config.MaxWorkers

\* ------------------------------------------------------------- helpers
RECURSIVE Flatten(_)
Flatten(bs) == IF bs = <<>> THEN <<>> ELSE Head(bs) \o Flatten(Tail(bs))

Range(s) == {s[i] : i \in 1..Len(s)}

IsPrefix(s, t) == Len(s) <= Len(t) /\ SubSeq(t, 1, Len(s)) = s

\* ---------------------------------------------------------------- Init
Init ==
    /\ config \in [BatchSize : 1..MaxBatchSize, MaxWorkers : 1..MaxWorkerCount]
    /\ ctxDone \in BOOLEAN
    /\ dataChan = <<>>
    /\ dataChanClosed = FALSE
    /\ batchChan = <<>>
    /\ batchChanClosed = FALSE
    /\ genPC = "select"
    /\ counter = 0
    /\ sensorData = NoData
    /\ genTicker = FALSE
    /\ batchPC = "select"
    /\ batch = <<>>
    /\ batchTicker = FALSE
    /\ workerPC = [w \in 1..config.MaxWorkers |-> "select"]
    /\ startPC = "waitCtx"
    /\ closeCalls = 0
    /\ closeErr = FALSE
    /\ startErr = FALSE
    /\ accepted = <<>>
    /\ acceptedAtCancel = <<>>
    /\ taken = <<>>
    /\ emitted = <<>>
    /\ delivered = <<>>
    /\ publishErrors = 0
    /\ workerBatch = [w \in 1..config.MaxWorkers |-> <<>>]
    /\ sinkCalls = {}
    /\ inProgress = 0
    /\ envLimit = MaxEnvelopes
    /\ call = NoCall

\* ------------------------------------------------------- environment
\* The caller's cancellation signal fires.
Cancel ==
    /\ ~ctxDone
    /\ ctxDone' = TRUE
    /\ acceptedAtCancel' = accepted
    /\ UNCHANGED <<config, dataChan, dataChanClosed, batchChan,
                   batchChanClosed, genPC, counter, sensorData, genTicker,
                   batchPC, batch, batchTicker, workerPC, startPC,
                   closeCalls, closeErr, startErr, accepted, taken, emitted,
                   delivered, publishErrors, workerBatch, sinkCalls,
                   inProgress, envLimit, call>>

\* The runtime delivers a tick on ticker.C (a channel of capacity 1; a tick
\* is dropped when one is already pending).  Stopped on return.
GenTickerFire ==
    /\ genPC # "done"
    /\ ~genTicker
    /\ genTicker' = TRUE
    /\ UNCHANGED <<config, ctxDone, dataChan, dataChanClosed, batchChan,
                   batchChanClosed, genPC, counter, sensorData, batchPC,
                   batch, batchTicker, workerPC, startPC, closeCalls,
                   closeErr, startErr, accepted, acceptedAtCancel, taken,
                   emitted, delivered, publishErrors, workerBatch, sinkCalls,
                   inProgress, envLimit, call>>

BatchTickerFire ==
    /\ batchPC # "done"
    /\ ~batchTicker
    /\ batchTicker' = TRUE
    /\ UNCHANGED <<config, ctxDone, dataChan, dataChanClosed, batchChan,
                   batchChanClosed, genPC, counter, sensorData, genTicker,
                   batchPC, batch, workerPC, startPC, closeCalls, closeErr,
                   startErr, accepted, acceptedAtCancel, taken, emitted,
                   delivered, publishErrors, workerBatch, sinkCalls,
                   inProgress, envLimit, call>>

\* ------------------------------------------------------- generateData
\* ID: fmt.Sprintf("sensor-%d", counter)                   (engine.go:79)
SensorID(n) == "sensor-" \o ToString(n)

\* variant: the counter advances by two on a send
CounterSkips(c) == c + 2

\* counter++ after the send succeeded                      (engine.go:87)
CounterAfterSend(c) == c + 1

\* variant: a send on a full dataChan goes through
DataChanOverfills == Len(dataChan) <= DataChanCap

\* the send case dataChan <- sensorData is ready          (engine.go:86)
DataChanHasRoom == Len(dataChan) < DataChanCap
\* variant: the generator also gives the envelope up when dataChan is full
GenSendDropsWhenFull == ctxDone \/ Len(dataChan) >= DataChanCap

\* the ctx.Done() case of the select around the send is ready
\*                                                        (engine.go:88)
GenSendCtxDoneReady == ctxDone

\* case <-ctx.Done(): return                              (engine.go:71-72)
GenCtxDone ==
    /\ genPC = "select"
    /\ ctxDone
    /\ genPC' = "done"
    /\ genTicker' = FALSE
    /\ UNCHANGED <<config, ctxDone, dataChan, dataChanClosed, batchChan,
                   batchChanClosed, counter, sensorData, batchPC, batch,
                   batchTicker, workerPC, startPC, closeCalls, closeErr,
                   startErr, accepted, acceptedAtCancel, taken, emitted,
                   delivered, publishErrors, workerBatch, sinkCalls,
                   inProgress, envLimit, call>>

\* case <-ticker.C: build the envelope with ID counter    (engine.go:73-83)
GenTick ==
    /\ genPC = "select"
    /\ genTicker
    /\ counter < envLimit
    /\ genTicker' = FALSE
    /\ sensorData' = SensorID(counter)
    /\ genPC' = "send"
    /\ UNCHANGED <<config, ctxDone, dataChan, dataChanClosed, batchChan,
                   batchChanClosed, counter, batchPC, batch, batchTicker,
                   workerPC, startPC, closeCalls, closeErr, startErr,
                   accepted, acceptedAtCancel, taken, emitted, delivered,
                   publishErrors, workerBatch, sinkCalls, inProgress,
                   envLimit, call>>

\* case dataChan <- sensorData: counter++                 (engine.go:86-87)
GenSend ==
    /\ genPC = "send"
    /\ ~dataChanClosed
    /\ DataChanHasRoom
    /\ dataChan' = Append(dataChan, sensorData)
    /\ accepted' = Append(accepted, sensorData)
    /\ counter' = CounterAfterSend(counter)
    /\ sensorData' = NoData
    /\ genPC' = "select"
    /\ UNCHANGED <<config, ctxDone, dataChanClosed, batchChan,
                   batchChanClosed, genTicker, batchPC, batch, batchTicker,
                   workerPC, startPC, closeCalls, closeErr, startErr,
                   acceptedAtCancel, taken, emitted, delivered,
                   publishErrors, workerBatch, sinkCalls, inProgress,
                   envLimit, call>>

\* case <-ctx.Done(): return (inner select)               (engine.go:88-89)
GenSendCtxDone ==
    /\ genPC = "send"
    /\ GenSendCtxDoneReady
    /\ genPC' = "done"
    /\ genTicker' = FALSE
    /\ sensorData' = NoData
    /\ UNCHANGED <<config, ctxDone, dataChan, dataChanClosed, batchChan,
                   batchChanClosed, counter, batchPC, batch, batchTicker,
                   workerPC, startPC, closeCalls, closeErr, startErr,
                   accepted, acceptedAtCancel, taken, emitted, delivered,
                   publishErrors, workerBatch, sinkCalls, inProgress,
                   envLimit, call>>

\* ----------------------------------------------------- processBatches
\* variant: a batch of one envelope counts as empty
HasDataStrict(b) == Len(b) > 1

\* len(batch) > 0                                  (engine.go:107,118,141)
HasData(b) == Len(b) > 0
\* variant: the size check uses > where the code uses >=
BatchFullStrict(b) == Len(b) > config.BatchSize

\* len(batch) >= e.config.BatchSize                       (engine.go:130)
BatchFull(b) == Len(b) >= config.BatchSize
\* variant: the new envelope is put in front of the batch
PrependData(b, d) == <<d>> \o b

\* batch = append(batch, data)                            (engine.go:127)
AppendData(b, d) == Append(b, d)

\* batch = make([]SensorData[T], 0, BatchSize)        (engine.go:133,144)
NewBatch == <<>>
\* variant: the sends on batchChan do not watch ctx.Done()
SendIgnoresCtx == FALSE

\* the ctx.Done() case of a select around a batchChan send is ready
\*                                             (engine.go:110,121,134,145)
SendCtxDoneReady == ctxDone

\* variant: the batcher also loops after the flush on cancellation
FlushLoopsAfterCancel(pc) == pc \in {"sendFull", "sendTick", "sendCancel"}

\* after this flush the batcher starts a new batch and loops (the size and
\* timeout flushes); after the two final flushes it returns
\*                                            (engine.go:133,144 / 113,124)
FlushLoops(pc) == pc \in {"sendFull", "sendTick"}

\* case <-ctx.Done(): flush attempt if non-empty, else return
\*                                                    (engine.go:105-113)
BatchCtxDone ==
    /\ batchPC = "select"
    /\ ctxDone
    /\ batchPC' = IF HasData(batch) THEN "sendCancel" ELSE "done"
    /\ batchTicker' = IF HasData(batch) THEN batchTicker ELSE FALSE
    /\ UNCHANGED <<config, ctxDone, dataChan, dataChanClosed, batchChan,
                   batchChanClosed, genPC, counter, sensorData, genTicker,
                   batch, workerPC, startPC, closeCalls, closeErr, startErr,
                   accepted, acceptedAtCancel, taken, emitted, delivered,
                   publishErrors, workerBatch, sinkCalls, inProgress,
                   envLimit, call>>

\* case data, ok := <-dataChan with ok: append, flush when full
\*                                                    (engine.go:115,127-130)
BatchRecv ==
    /\ batchPC = "select"
    /\ Len(dataChan) > 0
    /\ dataChan' = Tail(dataChan)
    /\ taken' = Append(taken, Head(dataChan))
    /\ batch' = AppendData(batch, Head(dataChan))
    /\ batchPC' = IF BatchFull(batch') THEN "sendFull" ELSE "select"
    /\ UNCHANGED <<config, ctxDone, dataChanClosed, batchChan,
                   batchChanClosed, genPC, counter, sensorData, genTicker,
                   batchTicker, workerPC, startPC, closeCalls, closeErr,
                   startErr, accepted, acceptedAtCancel, emitted, delivered,
                   publishErrors, workerBatch, sinkCalls, inProgress,
                   envLimit, call>>

\* case data, ok := <-dataChan with !ok               (engine.go:116-125)
BatchRecvClosed ==
    /\ batchPC = "select"
    /\ dataChanClosed
    /\ Len(dataChan) = 0
    /\ batchPC' = IF HasData(batch) THEN "sendClosed" ELSE "done"
    /\ batchTicker' = IF HasData(batch) THEN batchTicker ELSE FALSE
    /\ UNCHANGED <<config, ctxDone, dataChan, dataChanClosed, batchChan,
                   batchChanClosed, genPC, counter, sensorData, genTicker,
                   batch, workerPC, startPC, closeCalls, closeErr, startErr,
                   accepted, acceptedAtCancel, taken, emitted, delivered,
                   publishErrors, workerBatch, sinkCalls, inProgress,
                   envLimit, call>>

\* case <-batchTicker.C                               (engine.go:139-141)
BatchTick ==
    /\ batchPC = "select"
    /\ batchTicker
    /\ batchTicker' = FALSE
    /\ batchPC' = IF HasData(batch) THEN "sendTick" ELSE "select"
    /\ UNCHANGED <<config, ctxDone, dataChan, dataChanClosed, batchChan,
                   batchChanClosed, genPC, counter, sensorData, genTicker,
                   batch, workerPC, startPC, closeCalls, closeErr, startErr,
                   accepted, acceptedAtCancel, taken, emitted, delivered,
                   publishErrors, workerBatch, sinkCalls, inProgress,
                   envLimit, call>>

\* case batchChan <- batch: in the size and timeout flushes the batcher
\* starts a new batch and loops; in the two final flushes it returns
\*                                    (engine.go:109,120,132-133,143-144)
BatchSend ==
    /\ batchPC \in {"sendFull", "sendTick", "sendCancel", "sendClosed"}
    /\ ~batchChanClosed
    /\ Len(batchChan) < BatchChanCap
    /\ batchChan' = Append(batchChan, batch)
    /\ emitted' = Append(emitted, batch)
    /\ IF FlushLoops(batchPC)
       THEN /\ batch' = NewBatch
            /\ batchPC' = "select"
            /\ UNCHANGED batchTicker
       ELSE /\ batchPC' = "done"
            /\ batchTicker' = FALSE
            /\ UNCHANGED batch
    /\ UNCHANGED <<config, ctxDone, dataChan, dataChanClosed,
                   batchChanClosed, genPC, counter, sensorData, genTicker,
                   workerPC, startPC, closeCalls, closeErr, startErr,
                   accepted, acceptedAtCancel, taken, delivered,
                   publishErrors, workerBatch, sinkCalls, inProgress,
                   envLimit, call>>

\* case <-ctx.Done() next to a batchChan send: return, the batch is not sent
\*                                    (engine.go:110,121,134-135,145-146)
BatchSendCtxDone ==
    /\ batchPC \in {"sendFull", "sendTick", "sendCancel", "sendClosed"}
    /\ SendCtxDoneReady
    /\ batchPC' = "done"
    /\ batchTicker' = FALSE
    /\ UNCHANGED <<config, ctxDone, dataChan, dataChanClosed, batchChan,
                   batchChanClosed, genPC, counter, sensorData, genTicker,
                   batch, workerPC, startPC, closeCalls, closeErr, startErr,
                   accepted, acceptedAtCancel, taken, emitted, delivered,
                   publishErrors, workerBatch, sinkCalls, inProgress,
                   envLimit, call>>
\* variant: a receive yields the newest buffered batch
RecvNewest(ch) == Len(ch)

\* ------------------------------------------------------ publishWorker
\* which buffered batch a receive on batchChan yields     (engine.go:161)
RecvIndex(ch) == 1
\* variant: the worker returns when PublishBatch fails
StopOnPublishError(err) == IF err THEN "done" ELSE "select"

\* where the worker continues after PublishBatch returned (engine.go:166-171)
AfterPublish(err) == "select"

\* variant: a batch of one envelope goes through the single-record Publish
SinkCallSingles(b) == IF Len(b) = 1 THEN "Publish" ELSE "PublishBatch"

\* variant: the worker does not wait for PublishBatch to return
CallDoesNotWait == "select"

\* where the worker is while its PublishBatch call runs: the call is
\* synchronous, the worker waits for its result           (engine.go:166)
CallPC == "publishing"

\* the Publisher method a worker calls for a batch       (engine.go:166)
SinkCall(b) == "PublishBatch"

\* case <-ctx.Done(): return                          (engine.go:159-160)
WorkerCtxDone(w) ==
    /\ workerPC[w] = "select"
    /\ ctxDone
    /\ workerPC' = [workerPC EXCEPT ![w] = "done"]
    /\ UNCHANGED <<config, ctxDone, dataChan, dataChanClosed, batchChan,
                   batchChanClosed, genPC, counter, sensorData, genTicker,
                   batchPC, batch, batchTicker, startPC, closeCalls,
                   closeErr, startErr, accepted, acceptedAtCancel, taken,
                   emitted, delivered, publishErrors, workerBatch, sinkCalls,
                   inProgress, envLimit, call>>

\* case batch, ok := <-batchChan with ok             (engine.go:161-162)
WorkerRecv(w) ==
    /\ workerPC[w] = "select"
    /\ Len(batchChan) > 0
    /\ LET i == RecvIndex(batchChan) IN
         /\ workerBatch' = [workerBatch EXCEPT ![w] = batchChan[i]]
         /\ batchChan' = SubSeq(batchChan, 1, i - 1) \o
                         SubSeq(batchChan, i + 1, Len(batchChan))
    /\ workerPC' = [workerPC EXCEPT ![w] = "publish"]
    /\ UNCHANGED <<config, ctxDone, dataChan, dataChanClosed,
                   batchChanClosed, genPC, counter, sensorData, genTicker,
                   batchPC, batch, batchTicker, startPC, closeCalls,
                   closeErr, startErr, accepted, acceptedAtCancel, taken,
                   emitted, delivered, publishErrors, sinkCalls, inProgress,
                   envLimit, call>>

\* e.publisher.PublishBatch(ctx, batch) is called        (engine.go:166)
WorkerPublish(w) ==
    /\ workerPC[w] = "publish"
    /\ delivered' = Append(delivered, workerBatch[w])
    /\ sinkCalls' = sinkCalls \cup {SinkCall(workerBatch[w])}
    /\ inProgress' = inProgress + 1
    /\ workerPC' = [workerPC EXCEPT ![w] = CallPC]
    /\ UNCHANGED <<config, ctxDone, dataChan, dataChanClosed, batchChan,
                   batchChanClosed, genPC, counter, sensorData, genTicker,
                   batchPC, batch, batchTicker, startPC, closeCalls,
                   closeErr, startErr, accepted, acceptedAtCancel, taken,
                   emitted, publishErrors, workerBatch, envLimit,
                   call>>

\* case batch, ok := <-batchChan with !ok: return     (engine.go:162-164)
WorkerRecvClosed(w) ==
    /\ workerPC[w] = "select"
    /\ batchChanClosed
    /\ Len(batchChan) = 0
    /\ workerPC' = [workerPC EXCEPT ![w] = "done"]
    /\ UNCHANGED <<config, ctxDone, dataChan, dataChanClosed, batchChan,
                   batchChanClosed, genPC, counter, sensorData, genTicker,
                   batchPC, batch, batchTicker, startPC, closeCalls,
                   closeErr, startErr, accepted, acceptedAtCancel, taken,
                   emitted, delivered, publishErrors, workerBatch, sinkCalls,
                   inProgress, envLimit, call>>

\* PublishBatch returns nil or an error; the error is printed and the
\* loop continues                                     (engine.go:166-170)
WorkerPublishReturn(w) ==
    /\ workerPC[w] = "publishing"
    /\ \E err \in BOOLEAN :
         /\ publishErrors' = IF err THEN publishErrors + 1 ELSE publishErrors
         /\ workerPC' = [workerPC EXCEPT ![w] = AfterPublish(err)]
    /\ workerBatch' = [workerBatch EXCEPT ![w] = <<>>]
    /\ inProgress' = inProgress - 1
    /\ UNCHANGED <<config, ctxDone, dataChan, dataChanClosed, batchChan,
                   batchChanClosed, genPC, counter, sensorData, genTicker,
                   batchPC, batch, batchTicker, startPC, closeCalls,
                   closeErr, startErr, accepted, acceptedAtCancel, taken,
                   emitted, delivered, sinkCalls, envLimit, call>>
\* variant: close(dataChan) does not wait for the generator
NoDataWGWait == TRUE

\* -------------------------------------------------------- Engine.Start
\* dataWG.Wait() can return                               (engine.go:38)
DataWGWait == genPC = "done"

\* variant: close(batchChan) does not wait for the batcher
NoBatchWGWait == TRUE

\* batchWG.Wait() can return                              (engine.go:44)
BatchWGWait == batchPC = "done"
\* variant: Close does not wait for the workers
NoPublishWGWait == TRUE

\* publishWG.Wait() can return                            (engine.go:50)
PublishWGWait == \A w \in Workers : workerPC[w] = "done"
\* variant: Start also reports publish failures
StartResultWithPublishErrors(cerr) == cerr \/ publishErrors > 0

\* the error Start returns, given the result of Close  (engine.go:53-57)
StartResult(cerr) == cerr

\* <-ctx.Done()                                           (engine.go:35)
StartCtxDone ==
    /\ startPC = "waitCtx"
    /\ ctxDone
    /\ startPC' = "waitData"
    /\ UNCHANGED <<config, ctxDone, dataChan, dataChanClosed, batchChan,
                   batchChanClosed, genPC, counter, sensorData, genTicker,
                   batchPC, batch, batchTicker, workerPC, closeCalls,
                   closeErr, startErr, accepted, acceptedAtCancel, taken,
                   emitted, delivered, publishErrors, workerBatch, sinkCalls,
                   inProgress, envLimit, call>>

\* dataWG.Wait(); close(dataChan)                      (engine.go:38-41)
StartCloseData ==
    /\ startPC = "waitData"
    /\ DataWGWait
    /\ dataChanClosed' = TRUE
    /\ startPC' = "waitBatch"
    /\ UNCHANGED <<config, ctxDone, dataChan, batchChan, batchChanClosed,
                   genPC, counter, sensorData, genTicker, batchPC, batch,
                   batchTicker, workerPC, closeCalls, closeErr, startErr,
                   accepted, acceptedAtCancel, taken, emitted, delivered,
                   publishErrors, workerBatch, sinkCalls, inProgress,
                   envLimit, call>>

\* batchWG.Wait(); close(batchChan)                    (engine.go:44-47)
StartCloseBatch ==
    /\ startPC = "waitBatch"
    /\ BatchWGWait
    /\ batchChanClosed' = TRUE
    /\ startPC' = "waitPublish"
    /\ UNCHANGED <<config, ctxDone, dataChan, dataChanClosed, batchChan,
                   genPC, counter, sensorData, genTicker, batchPC, batch,
                   batchTicker, workerPC, closeCalls, closeErr, startErr,
                   accepted, acceptedAtCancel, taken, emitted, delivered,
                   publishErrors, workerBatch, sinkCalls, inProgress,
                   envLimit, call>>

\* publishWG.Wait(); e.publisher.Close() is called     (engine.go:50-53)
StartClosePublisher ==
    /\ startPC = "waitPublish"
    /\ PublishWGWait
    /\ closeCalls' = closeCalls + 1
    /\ sinkCalls' = sinkCalls \cup {"Close"}
    /\ startPC' = "closing"
    /\ UNCHANGED <<config, ctxDone, dataChan, dataChanClosed, batchChan,
                   batchChanClosed, genPC, counter, sensorData, genTicker,
                   batchPC, batch, batchTicker, workerPC, closeErr, startErr,
                   accepted, acceptedAtCancel, taken, emitted, delivered,
                   publishErrors, workerBatch, inProgress, envLimit, call>>

\* Close returns; Start returns the wrapped error or nil (engine.go:53-57)
StartReturn ==
    /\ startPC = "closing"
    /\ \E cerr \in BOOLEAN :
         /\ closeErr' = cerr
         /\ startErr' = StartResult(cerr)
    /\ startPC' = "returned"
    /\ UNCHANGED <<config, ctxDone, dataChan, dataChanClosed, batchChan,
                   batchChanClosed, genPC, counter, sensorData, genTicker,
                   batchPC, batch, batchTicker, workerPC, closeCalls,
                   accepted, acceptedAtCancel, taken, emitted, delivered,
                   publishErrors, workerBatch, sinkCalls, inProgress,
                   envLimit, call>>

\* ---------------------------------------------------------------- Next
Next ==
    \/ Cancel
    \/ GenTickerFire
    \/ BatchTickerFire
    \/ GenCtxDone
    \/ GenTick
    \/ GenSend
    \/ GenSendCtxDone
    \/ BatchCtxDone
    \/ BatchRecv
    \/ BatchRecvClosed
    \/ BatchTick
    \/ BatchSend
    \/ BatchSendCtxDone
    \/ \E w \in Workers : WorkerCtxDone(w)
    \/ \E w \in Workers : WorkerRecv(w)
    \/ \E w \in Workers : WorkerPublish(w)
    \/ \E w \in Workers : WorkerRecvClosed(w)
    \/ \E w \in Workers : WorkerPublishReturn(w)
    \/ StartCtxDone
    \/ StartCloseData
    \/ StartCloseBatch
    \/ StartClosePublisher
    \/ StartReturn

Spec == Init /\ [][Next]_vars

TypeOK ==
    /\ ctxDone \in BOOLEAN
    /\ Len(dataChan) <= DataChanCap
    /\ Len(batchChan) <= BatchChanCap
    /\ counter \in 0..envLimit

\* ------------------------------------------------------------ fairness
\* Every goroutine that can take a step eventually takes one, a Go select
\* picks among its ready cases at random (so a ready ctx.Done() case is not
\* passed over forever), and every PublishBatch and Close call returns.
Fairness ==
    /\ WF_vars(GenCtxDone \/ GenSendCtxDone)
    /\ WF_vars(GenSend)
    /\ WF_vars(BatchCtxDone \/ BatchSendCtxDone)
    /\ WF_vars(BatchRecv)
    /\ WF_vars(BatchRecvClosed)
    /\ WF_vars(BatchSend)
    /\ \A w \in 1..MaxWorkerCount :
         /\ WF_vars(w \in Workers /\ WorkerCtxDone(w))
         /\ WF_vars(w \in Workers /\ WorkerRecv(w))
         /\ WF_vars(w \in Workers /\ WorkerPublish(w))
         /\ WF_vars(w \in Workers /\ WorkerRecvClosed(w))
         /\ WF_vars(w \in Workers /\ WorkerPublishReturn(w))
    /\ WF_vars(StartCtxDone \/ StartCloseData \/ StartCloseBatch
                 \/ StartClosePublisher \/ StartReturn)

LiveSpec == Spec /\ Fairness

\* ------------------------------------------------------------ scenario
\* The run of the 7-envelope scenario: BatchSize 3, one worker, the
\* production ticker delivers exactly 7 ticks, ctx is not cancelled at the
\* start and the batch timeout is too long to tick during the run.
ScenarioInit ==
    /\ config = [BatchSize |-> 3, MaxWorkers |-> 1]
    /\ ctxDone = FALSE
    /\ dataChan = <<>>
    /\ dataChanClosed = FALSE
    /\ batchChan = <<>>
    /\ batchChanClosed = FALSE
    /\ genPC = "select"
    /\ counter = 0
    /\ sensorData = NoData
    /\ genTicker = FALSE
    /\ batchPC = "select"
    /\ batch = <<>>
    /\ batchTicker = FALSE
    /\ workerPC = [w \in 1..1 |-> "select"]
    /\ startPC = "waitCtx"
    /\ closeCalls = 0
    /\ closeErr = FALSE
    /\ startErr = FALSE
    /\ accepted = <<>>
    /\ acceptedAtCancel = <<>>
    /\ taken = <<>>
    /\ emitted = <<>>
    /\ delivered = <<>>
    /\ publishErrors = 0
    /\ workerBatch = [w \in 1..1 |-> <<>>]
    /\ sinkCalls = {}
    /\ inProgress = 0
    /\ envLimit = 7
    /\ call = NoCall

ScenarioNext ==
    \/ Cancel
    \/ GenTickerFire
    \/ GenCtxDone
    \/ GenTick
    \/ GenSend
    \/ GenSendCtxDone
    \/ BatchCtxDone
    \/ BatchRecv
    \/ BatchRecvClosed
    \/ BatchSend
    \/ BatchSendCtxDone
    \/ \E w \in Workers : WorkerCtxDone(w)
    \/ \E w \in Workers : WorkerRecv(w)
    \/ \E w \in Workers : WorkerPublish(w)
    \/ \E w \in Workers : WorkerRecvClosed(w)
    \/ \E w \in Workers : WorkerPublishReturn(w)
    \/ StartCtxDone
    \/ StartCloseData
    \/ StartCloseBatch
    \/ StartClosePublisher
    \/ StartReturn

ScenarioSpec == ScenarioInit /\ [][ScenarioNext]_vars

\* ---------------------------------------------------- determineQuality
\* The draw r := rand.Float64() is a value of [0,1), here in thousandths.
Draws == 0..999

\* thresholds 0.01, 0.03 and 0.08 in thousandths      (engine.go:178-182)
CorruptBelow == 10
PartialBelow == 30
\* variant: the NOISY threshold that would leave 89% of the draws for OK
NoisyBelowReadme == PartialBelow + 80
NoisyBelow == 80

\* variant: the comparisons are <= where the code has <
determineQualityInclusive(r) ==
    IF r <= CorruptBelow THEN "CORRUPT"
    ELSE IF r <= PartialBelow THEN "PARTIAL"
    ELSE IF r <= NoisyBelow THEN "NOISY"
    ELSE "OK"

\* switch { case r < 0.01 ... default }                (engine.go:175-187)
determineQuality(r) ==
    IF r < CorruptBelow THEN "CORRUPT"
    ELSE IF r < PartialBelow THEN "PARTIAL"
    ELSE IF r < NoisyBelow THEN "NOISY"
    ELSE "OK"

\* ------------------------------------------------- time.ParseDuration
\* A duration string is a sequence of one-character strings.  The parser
\* follows the library: optional sign, "0" alone, then one or more
\* <digits><unit> terms.  Fractions ("1.5s") are not modelled; no input
\* contains a ".".  Durations are in nanoseconds.
DigitChars == <<"0", "1", "2", "3", "4", "5", "6", "7", "8", "9">>

IsDigit(c) == \E i \in 1..Len(DigitChars) : DigitChars[i] = c

DigitVal(c) == (CHOOSE i \in 1..Len(DigitChars) : DigitChars[i] = c) - 1

\* number of leading digits of s
RECURSIVE LeadingDigits(_)
LeadingDigits(s) ==
    IF s = <<>> \/ ~IsDigit(Head(s)) THEN 0 ELSE 1 + LeadingDigits(Tail(s))

\* number of leading characters of s that are not digits
RECURSIVE LeadingUnit(_)
LeadingUnit(s) ==
    IF s = <<>> \/ IsDigit(Head(s)) THEN 0 ELSE 1 + LeadingUnit(Tail(s))

\* value of a sequence of digits
RECURSIVE DigitsValue(_, _)
DigitsValue(s, acc) ==
    IF s = <<>> THEN acc ELSE DigitsValue(Tail(s), acc * 10 + DigitVal(Head(s)))

\* the characters of s as one string
RECURSIVE Concat(_)
Concat(s) == IF s = <<>> THEN "" ELSE Head(s) \o Concat(Tail(s))

\* unitMap of the library, 0 for a unit it does not know
UnitNanos(u) ==
    CASE u = "ns" -> 1
      [] u = "us" -> 1000
      [] u = "ms" -> 1000000
      [] u = "s" -> 1000000000
      [] u = "m" -> 60 * 1000000000
      [] u = "h" -> 3600 * 1000000000
      [] OTHER -> 0

\* the loop over the terms of a duration string
RECURSIVE ParseTerms(_, _)
ParseTerms(s, acc) ==
    IF s = <<>> THEN [err |-> FALSE, d |-> acc]
    ELSE LET n == LeadingDigits(s)
             rest == SubSeq(s, n + 1, Len(s))
             u == LeadingUnit(rest)
             unit == Concat(SubSeq(rest, 1, u))
         IN IF n = 0 \/ u = 0 \/ UnitNanos(unit) = 0
            THEN [err |-> TRUE, d |-> 0]
            ELSE ParseTerms(SubSeq(rest, u + 1, Len(rest)),
                            acc + DigitsValue(SubSeq(s, 1, n), 0)
                                    * UnitNanos(unit))

\* time.ParseDuration as called by ToEngineConfig   (part_004:63,68)
ParseDuration(s) ==
    LET signed == s # <<>> /\ s[1] \in {"-", "+"}
        neg == s # <<>> /\ s[1] = "-"
        body == IF signed THEN Tail(s) ELSE s
    IN IF body = <<"0">> THEN [err |-> FALSE, d |-> 0]
       ELSE IF body = <<>> THEN [err |-> TRUE, d |-> 0]
       ELSE LET r == ParseTerms(body, 0)
            IN IF r.err THEN [err |-> TRUE, d |-> 0]
               ELSE [err |-> FALSE, d |-> IF neg THEN 0 - r.d ELSE r.d]

\* -------------------------------------------------------- config.go
\* a nil error, a nil pointer or interface
NilErr == "nil"
NilValue == [kind |-> "nil"]

\* Config{}                                              (part_004:65,70)
ZeroConfig ==
    [ProductionRate |-> 0, BatchSize |-> 0, BatchTimeout |-> 0,
     MaxWorkers |-> 0]

\* variant: batch_timeout is parsed and checked before production_rate
ToEngineConfigTimeoutFirst(ec) ==
    LET pr == ParseDuration(ec.ProductionRate)
        bt == ParseDuration(ec.BatchTimeout)
    IN IF bt.err
       THEN [config |-> ZeroConfig, err |-> "invalid batch_timeout"]
       ELSE IF pr.err
       THEN [config |-> ZeroConfig, err |-> "invalid production_rate"]
       ELSE [config |-> [ProductionRate |-> pr.d,
                         BatchSize |-> ec.BatchSize,
                         BatchTimeout |-> bt.d,
                         MaxWorkers |-> ec.MaxWorkers],
             err |-> NilErr]

\* ConfigFile.ToEngineConfig on the engine section ec    (part_004:62-79)
ToEngineConfig(ec) ==
    LET pr == ParseDuration(ec.ProductionRate)
        bt == ParseDuration(ec.BatchTimeout)
    IN IF pr.err
       THEN [config |-> ZeroConfig, err |-> "invalid production_rate"]
       ELSE IF bt.err
       THEN [config |-> ZeroConfig, err |-> "invalid batch_timeout"]
       ELSE [config |-> [ProductionRate |-> pr.d,
                         BatchSize |-> ec.BatchSize,
                         BatchTimeout |-> bt.d,
                         MaxWorkers |-> ec.MaxWorkers],
             err |-> NilErr]

\* variant: the switch has no case "custom"
CreateSeederNoCustom(t) ==
    CASE t = "time" -> [seeder |-> [kind |-> "TimeSeeder"], err |-> NilErr]
      [] t = "random" -> [seeder |-> [kind |-> "RandomSeeder"], err |-> NilErr]
      [] t = "linear" -> [seeder |-> [kind |-> "LinearSeeder"], err |-> NilErr]
      [] t = "normal" -> [seeder |-> [kind |-> "NormalSeeder"], err |-> NilErr]
      [] OTHER -> [seeder |-> NilValue, err |-> "unknown seeder type"]

\* ConfigFile.CreateSeeder on the seeder type t; every create*Seeder
\* returns a new seeder and a nil error                 (part_004:82-136)
CreateSeeder(t) ==
    CASE t = "time" -> [seeder |-> [kind |-> "TimeSeeder"], err |-> NilErr]
      [] t = "random" -> [seeder |-> [kind |-> "RandomSeeder"], err |-> NilErr]
      [] t = "linear" -> [seeder |-> [kind |-> "LinearSeeder"], err |-> NilErr]
      [] t = "normal" -> [seeder |-> [kind |-> "NormalSeeder"], err |-> NilErr]
      [] t = "custom" -> [seeder |-> [kind |-> "CustomSeeder"], err |-> NilErr]
      [] OTHER -> [seeder |-> NilValue, err |-> "unknown seeder type"]

\* LoadConfigFromFile: the file cannot be read, is not JSON, or unmarshals
\* into the ConfigFile f.content                         (part_004:47-59)
LoadConfigFromFile(f) ==
    CASE f.kind = "missing" ->
           [configFile |-> NilValue, err |-> "failed to read config file"]
      [] f.kind = "badjson" ->
           [configFile |-> NilValue, err |-> "failed to parse config file"]
      [] OTHER -> [configFile |-> f.content, err |-> NilErr]

\* NewEngine stores its arguments; it has no error result, which is the
\* nil error here                                        (part_003:60-72)
NewEngine(cfg, seeder) ==
    [engine |-> [kind |-> "Engine", config |-> cfg, seeder |-> seeder],
     err |-> NilErr]

\* variant: the error of CreateSeeder is ignored
SeederErrorIgnored(sd) == FALSE

\* if err != nil after configFile.CreateSeeder()      (part_004:205-208)
SeederFailed(sd) == sd.err # NilErr

\* CreateEngineFromConfig on the file f; steps lists the calls it made
\*                                                     (part_004:194-211)
CreateEngineFromConfig(f) ==
    LET ld == LoadConfigFromFile(f)
    IN IF ld.err # NilErr
       THEN [engine |-> NilValue, err |-> "failed to load config",
             steps |-> <<"LoadConfigFromFile">>]
       ELSE
       LET ec == ToEngineConfig(ld.configFile.Engine)
       IN IF ec.err # NilErr
          THEN [engine |-> NilValue,
                err |-> "failed to convert engine config",
                steps |-> <<"LoadConfigFromFile", "ToEngineConfig">>]
          ELSE
          LET sd == CreateSeeder(ld.configFile.Seeder)
          IN IF SeederFailed(sd)
             THEN [engine |-> NilValue, err |-> "failed to create seeder",
                   steps |-> <<"LoadConfigFromFile", "ToEngineConfig",
                               "CreateSeeder">>]
             ELSE [engine |-> NewEngine(ec.config, sd.seeder).engine,
                   err |-> NilErr,
                   steps |-> <<"LoadConfigFromFile", "ToEngineConfig",
                               "CreateSeeder", "NewEngine">>]

\* ------------------------------------------------- construction calls
\* Each behaviour makes one call, with its input drawn from the sets below.
DurationStrings ==
    { <<"1", "0", "0", "m", "s">>, <<"5", "0", "m", "s">>, <<"1", "s">>,
      <<"1", "s", "5", "0", "0", "m", "s">>, <<"0">>, <<"0", "s">>,
      <<"-", "5", "m", "s">>, <<>>, <<"a", "b", "c">>, <<"1", "0">>,
      <<"5", "x">> }

Durations == {0 - 5000000, 0, 100000000}

BatchSizes == {0 - 1, 0, 1, 50}

WorkerCounts == {0 - 1, 0, 3}

SeederTypes ==
    {"time", "random", "linear", "normal", "custom", "invalid", "", "Time"}

EngineConfigs ==
    [ProductionRate : DurationStrings, BatchSize : BatchSizes,
     BatchTimeout : DurationStrings, MaxWorkers : WorkerCounts]

Configs ==
    [ProductionRate : Durations, BatchSize : BatchSizes,
     BatchTimeout : Durations, MaxWorkers : WorkerCounts]

Files ==
    {[kind |-> "missing"], [kind |-> "badjson"]} \cup
    {[kind |-> "ok", content |-> [Engine |-> e, Seeder |-> t]] :
        e \in [ProductionRate : DurationStrings, BatchSize : {0, 50},
               BatchTimeout : DurationStrings, MaxWorkers : {0, 3}],
        t \in SeederTypes}

pipeVars ==
    <<config, ctxDone, dataChan, dataChanClosed, batchChan, batchChanClosed,
      genPC, counter, sensorData, genTicker, batchPC, batch, batchTicker,
      workerPC, startPC, closeCalls, closeErr, startErr, accepted,
      acceptedAtCancel, taken, emitted, delivered, publishErrors,
      workerBatch, sinkCalls, inProgress, envLimit>>

CallDetermineQuality ==
    /\ call = NoCall
    /\ \E r \in Draws :
         call' = [op |-> "determineQuality", in |-> r,
                  out |-> determineQuality(r)]
    /\ UNCHANGED pipeVars

CallNewEngine ==
    /\ call = NoCall
    /\ \E cfg \in Configs, sd \in {[kind |-> "TimeSeeder"]} :
         call' = [op |-> "NewEngine", in |-> cfg, out |-> NewEngine(cfg, sd)]
    /\ UNCHANGED pipeVars

CallToEngineConfig ==
    /\ call = NoCall
    /\ \E ec \in EngineConfigs :
         call' = [op |-> "ToEngineConfig", in |-> ec,
                  out |-> ToEngineConfig(ec)]
    /\ UNCHANGED pipeVars

CallCreateSeeder ==
    /\ call = NoCall
    /\ \E t \in SeederTypes :
         call' = [op |-> "CreateSeeder", in |-> t, out |-> CreateSeeder(t)]
    /\ UNCHANGED pipeVars

CallCreateEngineFromConfig ==
    /\ call = NoCall
    /\ \E f \in Files :
         call' = [op |-> "CreateEngineFromConfig", in |-> f,
                  out |-> CreateEngineFromConfig(f)]
    /\ UNCHANGED pipeVars

\* No engine is running: the calls are made before Start.
ApiInit ==
    /\ config = [BatchSize |-> 1, MaxWorkers |-> 1]
    /\ ctxDone = FALSE
    /\ dataChan = <<>>
    /\ dataChanClosed = FALSE
    /\ batchChan = <<>>
    /\ batchChanClosed = FALSE
    /\ genPC = "select"
    /\ counter = 0
    /\ sensorData = NoData
    /\ genTicker = FALSE
    /\ batchPC = "select"
    /\ batch = <<>>
    /\ batchTicker = FALSE
    /\ workerPC = [w \in 1..1 |-> "select"]
    /\ startPC = "waitCtx"
    /\ closeCalls = 0
    /\ closeErr = FALSE
    /\ startErr = FALSE
    /\ accepted = <<>>
    /\ acceptedAtCancel = <<>>
    /\ taken = <<>>
    /\ emitted = <<>>
    /\ delivered = <<>>
    /\ publishErrors = 0
    /\ workerBatch = [w \in 1..1 |-> <<>>]
    /\ sinkCalls = {}
    /\ inProgress = 0
    /\ envLimit = 0
    /\ call = NoCall

ApiNext ==
    \/ CallDetermineQuality
    \/ CallNewEngine
    \/ CallToEngineConfig
    \/ CallCreateSeeder
    \/ CallCreateEngineFromConfig

ApiSpec == ApiInit /\ [][ApiNext]_vars

\* ------------------------------------------------------ claim helpers
\* position of e in s (e occurs in s)
IndexOf(s, e) == CHOOSE i \in 1..Len(s) : s[i] = e

\* s lists elements of t, each once, in the order they have in t
InOrderOf(s, t) ==
    /\ \A i \in 1..Len(s) : s[i] \in Range(t)
    /\ \A i, j \in 1..Len(s) : i < j => IndexOf(t, s[i]) < IndexOf(t, s[j])

\* number of batches of bs that contain e
Occurrences(bs, e) == Cardinality({i \in 1..Len(bs) : e \in Range(bs[i])})

\* ---------------------------------------------------------------- C1
\* C1: when Start has returned, every envelope that was enqueued on dataChan
\* before the cancellation fired has been passed to PublishBatch in exactly
\* one batch.
C1_ZeroDataLoss ==
    startPC = "returned" =>
        \A e \in Range(acceptedAtCancel) : Occurrences(delivered, e) = 1

\* ---------------------------------------------------------------- C2
\* C2: Close is called at most once, exactly once when Start has returned,
\* only when every worker has exited (so no PublishBatch is in progress),
\* and no PublishBatch call or second Close follows it.
C2_CloseOnceAfterWorkers ==
    /\ [](/\ closeCalls <= 1
          /\ (startPC = "returned" => closeCalls = 1)
          /\ (closeCalls >= 1 => \A w \in Workers : workerPC[w] = "done"))
    /\ [][closeCalls >= 1 =>
             (delivered' = delivered /\ closeCalls' = closeCalls)]_vars

C2_Witness ==
    /\ startPC = "returned"
    /\ closeCalls = 1
    /\ config.MaxWorkers = 2
    /\ Len(delivered) >= 2

\* ---------------------------------------------------------------- C3
\* C3: once the cancellation has fired, Start eventually returns with the
\* publisher closed, whatever is buffered in dataChan and batchChan.
C3_ShutdownTerminates == ctxDone ~> (startPC = "returned" /\ closeCalls = 1)

C3_Witness ==
    /\ startPC = "returned"
    /\ closeCalls = 1
    /\ Len(batchChan) = BatchChanCap

\* ---------------------------------------------------------------- C4
\* C4: every batch sent on batchChan and every batch passed to PublishBatch
\* holds between 1 and config.BatchSize envelopes.
C4_BatchSizeBounds ==
    /\ \A i \in 1..Len(batchChan) :
         Len(batchChan[i]) \in 1..config.BatchSize
    /\ \A i \in 1..Len(emitted) : Len(emitted[i]) \in 1..config.BatchSize
    /\ \A i \in 1..Len(delivered) : Len(delivered[i]) \in 1..config.BatchSize

C4_Witness ==
    /\ config.BatchSize >= 2
    /\ \E i \in 1..Len(delivered) : Len(delivered[i]) = config.BatchSize
    /\ \E i \in 1..Len(delivered) : Len(delivered[i]) = 1

\* ---------------------------------------------------------------- C5
\* C5: Start returns a non-nil error exactly when Close returned an error,
\* whatever the PublishBatch calls returned.
C5_ErrorIffCloseFails == startPC = "returned" => (startErr <=> closeErr)

C5_Witness ==
    /\ startPC = "returned"
    /\ ~closeErr
    /\ ~startErr
    /\ Len(delivered) >= 2
    /\ publishErrors = Len(delivered)

\* ---------------------------------------------------------------- C6
\* C6: when a PublishBatch call fails the worker is back at its select, no
\* other stage and no queue is touched by the failure, and no batch is ever
\* passed to PublishBatch twice.
C6_PublishFailureContinues ==
    /\ [][\A w \in Workers :
            (/\ workerPC[w] = "publishing"
             /\ workerPC'[w] # "publishing"
             /\ publishErrors' > publishErrors)
            => /\ workerPC'[w] = "select"
               /\ UNCHANGED <<genPC, batchPC, startPC, dataChan, batchChan,
                              dataChanClosed, batchChanClosed, batch,
                              delivered, emitted>>]_vars
    /\ [](/\ \A i, j \in 1..Len(delivered) :
               i # j => delivered[i] # delivered[j]
          /\ \A i \in 1..Len(delivered) : delivered[i] \in Range(emitted))

C6_Witness ==
    /\ config.MaxWorkers = 1
    /\ publishErrors >= 1
    /\ Len(delivered) = publishErrors + 1
    /\ workerPC[1] = "publishing"

\* ---------------------------------------------------------------- C7
\* C7: the envelopes of the emitted batches, read batch after batch, are
\* pairwise distinct and stand in the order in which the generator enqueued
\* them.
C7_BatcherFifoNoDup == InOrderOf(Flatten(emitted), accepted)

C7_Witness ==
    /\ config.BatchSize = 2
    /\ Len(emitted) >= 2
    /\ Len(Flatten(emitted)) >= 3

\* ---------------------------------------------------------------- C8
\* C8: with one worker the batches passed to PublishBatch are, in call
\* order, a prefix of the emitted batches, and their envelopes are in
\* generation order.
C8_SingleWorkerOrder ==
    config.MaxWorkers = 1 =>
        /\ IsPrefix(delivered, emitted)
        /\ InOrderOf(Flatten(delivered), accepted)

C8_Witness ==
    /\ config.MaxWorkers = 1
    /\ Len(delivered) >= 3

\* ---------------------------------------------------------------- C9
\* C9: when the batcher has finished, every envelope it received from
\* dataChan is in exactly one batch it sent on batchChan.
C9_TakenIsEmitted ==
    batchPC = "done" =>
        \A e \in Range(taken) : Occurrences(emitted, e) = 1

\* --------------------------------------------------------------- C10
\* C10: dataChan is closed only after generateData returned, batchChan only
\* after processBatches returned and dataChan was closed, Close is called
\* only after every worker returned and batchChan was closed, and none of
\* this happens before the cancellation.
C10_ShutdownOrder ==
    /\ dataChanClosed => (genPC = "done" /\ ctxDone)
    /\ batchChanClosed => (batchPC = "done" /\ dataChanClosed)
    /\ closeCalls >= 1 =>
         (batchChanClosed /\ \A w \in Workers : workerPC[w] = "done")
    /\ startPC # "waitCtx" => ctxDone

C10_Witness ==
    /\ closeCalls = 1
    /\ dataChanClosed
    /\ batchChanClosed
    /\ Len(delivered) >= 1
    /\ Len(accepted) >= 2

\* --------------------------------------------------------------- C11
\* C11: when Start has returned from a run in which an envelope was produced
\* and enqueued before the cancellation, at least one envelope has been
\* passed to PublishBatch.
C11_SomethingPublished ==
    (startPC = "returned" /\ Len(acceptedAtCancel) >= 1) =>
        Len(Flatten(delivered)) >= 1

\* --------------------------------------------------------------- C12
\* C12: in the 7-envelope scenario, when all 7 envelopes were enqueued before
\* the cancellation and Start has returned, PublishBatch was called with
\* three batches of 3, 3 and 1 envelopes, in that order.
C12_SevenEnvelopes ==
    (startPC = "returned" /\ Len(acceptedAtCancel) = 7) =>
        /\ Len(delivered) = 3
        /\ Len(delivered[1]) = 3
        /\ Len(delivered[2]) = 3
        /\ Len(delivered[3]) = 1

\* --------------------------------------------------------------- C14
\* C14: the envelopes accepted into dataChan carry the identifiers sensor-0,
\* sensor-1, ... in enqueue order, pairwise distinct and without gaps, and
\* an envelope given up on cancellation consumes no identifier.
C14_SequentialIDs ==
    /\ [](/\ \A i \in 1..Len(accepted) :
               accepted[i] = "sensor-" \o ToString(i - 1)
          /\ \A i, j \in 1..Len(accepted) :
               i # j => accepted[i] # accepted[j]
          /\ counter = Len(accepted))
    /\ [][(genPC = "send" /\ genPC' = "done") =>
             (counter' = counter /\ accepted' = accepted)]_vars

C14_Witness ==
    /\ Len(accepted) >= 2
    /\ genPC = "done"
    /\ counter = Len(accepted)
    /\ Len(accepted) < envLimit

\* --------------------------------------------------------------- C19
\* C19: at the step in which processBatches returns, dataChan is closed and
\* empty.
C19_BatcherDrainsDataChan ==
    [][(batchPC # "done" /\ batchPC' = "done") =>
          (dataChanClosed' /\ dataChan' = <<>>)]_vars

\* --------------------------------------------------------------- C20
\* C20: at the step in which a publishWorker returns, batchChan is closed
\* and empty.
C20_WorkerDrainsBatchChan ==
    [][\A w \in Workers :
          (workerPC[w] # "done" /\ workerPC'[w] = "done") =>
              (batchChanClosed' /\ batchChan' = <<>>)]_vars

\* --------------------------------------------------------------- C13
\* the four constraints of a valid configuration
ValidConfig(c) ==
    /\ c.ProductionRate > 0
    /\ c.BatchSize >= 1
    /\ c.BatchTimeout > 0
    /\ c.MaxWorkers >= 1

\* C13: NewEngine, ToEngineConfig and CreateEngineFromConfig return an error
\* unless the configuration they return or store has a positive production
\* interval, a batch size >= 1, a positive batch timeout and a worker
\* count >= 1.
C13_InvalidConfigRejected ==
    /\ call.op = "NewEngine" =>
         (call.out.err # NilErr \/ ValidConfig(call.out.engine.config))
    /\ call.op = "ToEngineConfig" =>
         (call.out.err # NilErr \/ ValidConfig(call.out.config))
    /\ call.op = "CreateEngineFromConfig" =>
         (call.out.err # NilErr \/ ValidConfig(call.out.engine.config))

\* --------------------------------------------------------------- C15
\* share of the draw range, in percent, that gets the tag q
QualityShare(q) ==
    (100 * Cardinality({r \in Draws : determineQuality(r) = q}))
        \div Cardinality(Draws)

C16_CreateSeederTypes ==
    call.op = "CreateSeeder" =>
        IF call.in \in {"time", "random", "linear", "normal", "custom"}
        THEN call.out.seeder # NilValue /\ call.out.err = NilErr
        ELSE call.out.seeder = NilValue /\ call.out.err # NilErr

C16_Witness ==
    /\ call.op = "CreateSeeder"
    /\ call.in = "custom"
    /\ call.out.seeder = [kind |-> "CustomSeeder"]

\* --------------------------------------------------------------- C17
\* C17: CreateEngineFromConfig returns an engine and a nil error exactly
\* when loading, converting and creating the seeder all succeed; otherwise
\* it returns a nil engine and the error of the first step that failed, in
\* the order load, convert, seeder, and makes no later call.
C17_CreateEngineSteps ==
    call.op = "CreateEngineFromConfig" =>
        LET f == call.in
            o == call.out
            loadOK == f.kind = "ok"
            convOK == /\ ~ParseDuration(f.content.Engine.ProductionRate).err
                      /\ ~ParseDuration(f.content.Engine.BatchTimeout).err
            seedOK == f.content.Seeder \in
                        {"time", "random", "linear", "normal", "custom"}
        IN /\ (o.engine = NilValue) <=> (o.err # NilErr)
           /\ (o.err = NilErr) <=> (loadOK /\ convOK /\ seedOK)
           /\ ~loadOK =>
                /\ o.err = "failed to load config"
                /\ o.steps = <<"LoadConfigFromFile">>
           /\ (loadOK /\ ~convOK) =>
                /\ o.err = "failed to convert engine config"
                /\ o.steps = <<"LoadConfigFromFile", "ToEngineConfig">>
           /\ (loadOK /\ convOK /\ ~seedOK) =>
                /\ o.err = "failed to create seeder"
                /\ o.steps = <<"LoadConfigFromFile", "ToEngineConfig",
                               "CreateSeeder">>
           /\ (loadOK /\ convOK /\ seedOK) =>
                o.steps = <<"LoadConfigFromFile", "ToEngineConfig",
                            "CreateSeeder", "NewEngine">>

C17_Witness ==
    /\ call.op = "CreateEngineFromConfig"
    /\ call.in.kind = "ok"
    /\ call.out.err = "failed to create seeder"
    /\ call.out.engine = NilValue

\* --------------------------------------------------------------- C18
\* C18: ToEngineConfig returns the parsed production_rate and batch_timeout
\* and the file's batch_size and max_workers unchanged ("100ms" is 100
\* million nanoseconds); when a duration does not parse it returns an error
\* and the zero Config, and production_rate is checked first.
C18_ToEngineConfig ==
    call.op = "ToEngineConfig" =>
        LET ec == call.in
            o == call.out
            pr == ParseDuration(ec.ProductionRate)
            bt == ParseDuration(ec.BatchTimeout)
            zero == [ProductionRate |-> 0, BatchSize |-> 0,
                     BatchTimeout |-> 0, MaxWorkers |-> 0]
        IN /\ pr.err =>
                (o.err = "invalid production_rate" /\ o.config = zero)
           /\ (~pr.err /\ bt.err) =>
                (o.err = "invalid batch_timeout" /\ o.config = zero)
           /\ (~pr.err /\ ~bt.err) =>
                /\ o.err = NilErr
                /\ o.config.ProductionRate = pr.d
                /\ o.config.BatchTimeout = bt.d
                /\ o.config.BatchSize = ec.BatchSize
                /\ o.config.MaxWorkers = ec.MaxWorkers
           /\ (o.err = NilErr /\ ec.ProductionRate = <<"1", "0", "0", "m", "s">>)
                => o.config.ProductionRate = 100000000
           /\ (o.err = NilErr /\ ec.BatchTimeout = <<"5", "0", "m", "s">>)
                => o.config.BatchTimeout = 50000000

C18_Witness ==
    /\ call.op = "ToEngineConfig"
    /\ call.out.err = NilErr
    /\ call.out.config.ProductionRate = 100000000
    /\ call.out.config.BatchTimeout = 1500000000
    /\ call.out.config.BatchSize = 50
    /\ call.out.config.MaxWorkers = 3

\* --------------------------------------------------------------- C21
\* C21: when the batcher has seen dataChan closed and drained with a
\* non-empty batch, the step in which it leaves that flush sends the batch
\* on batchChan (once) and the batcher is done afterwards.
C21_ClosedFlushEnqueues ==
    [][(batchPC = "sendClosed" /\ batchPC' # "sendClosed") =>
          (emitted' = Append(emitted, batch) /\ batchPC' = "done")]_vars

\* --------------------------------------------------------------- C22
\* C22: in the flush on cancellation the batch is non-empty and the batcher
\* can always move on (the ctx.Done() case is ready, also with batchChan
\* full); it sends its batch at most once, takes no envelope from dataChan,
\* and its next step ends it; once done it never sends or takes again.
C22_CancelFlush ==
    /\ [](batchPC = "sendCancel" =>
            (HasData(batch) /\ ENABLED BatchSendCtxDone))
    /\ [][batchPC = "sendCancel" =>
            /\ batchPC' \in {"sendCancel", "done"}
            /\ taken' = taken
            /\ batch' = batch
            /\ emitted' \in {emitted, Append(emitted, batch)}
            /\ (batchPC' = "sendCancel" => emitted' = emitted)]_vars
    /\ [][batchPC = "done" =>
            (batchPC' = "done" /\ taken' = taken /\ emitted' = emitted)]_vars

C22_Witness ==
    /\ batchPC = "sendCancel"
    /\ Len(batchChan) = BatchChanCap

\* --------------------------------------------------------------- C23
\* C23: once ctx is cancelled the generator takes no further tick (no draw
\* from the seeder) and sends no further envelope on dataChan.
C23_NoDrawAfterCancel ==
    [][ctxDone =>
          (~(genPC = "select" /\ genPC' = "send") /\ accepted' = accepted)]_vars

\* --------------------------------------------------------------- C24
\* C24: while the generator holds an envelope to send, it keeps that same
\* envelope until it is sent on dataChan or ctx is cancelled: with dataChan
\* full and ctx not cancelled the generator has no step at all (no draw, no
\* discard), with room in dataChan the send is possible, and the only ways
\* out of the send are the send itself and the return on cancellation.
C24_BlockedSendKeepsEnvelope ==
    /\ [](genPC = "send" => sensorData # NoData)
    /\ []((genPC = "send" /\ ~ctxDone /\ Len(dataChan) = DataChanCap) =>
            ~ENABLED (GenSend \/ GenSendCtxDone \/ GenTick \/ GenCtxDone))
    /\ []((genPC = "send" /\ Len(dataChan) < DataChanCap) => ENABLED GenSend)
    /\ [][genPC = "send" =>
            \/ /\ genPC' = "send"
               /\ sensorData' = sensorData
               /\ accepted' = accepted
               /\ counter' = counter
            \/ /\ genPC' = "select"
               /\ accepted' = Append(accepted, sensorData)
               /\ dataChan' = Append(dataChan, sensorData)
            \/ /\ genPC' = "done"
               /\ ctxDone]_vars

C24_Witness ==
    /\ genPC = "send"
    /\ ~ctxDone
    /\ Len(dataChan) = DataChanCap
    /\ sensorData = SensorID(DataChanCap)

\* --------------------------------------------------------------- C25
\* Number of PublishBatch calls that return before the sink hangs.
SinkReturns == 1

\* envelopes that dataChan, the batcher, batchChan and the workers can hold
\* together: cap(dataChan) + BatchSize * (cap(batchChan) + 1 + MaxWorkers)
InFlightBound ==
    DataChanCap + config.BatchSize * (BatchChanCap + 1 + config.MaxWorkers)

\* A run without cancellation whose sink stops returning: the ticker
\* delivers more ticks than the pipeline can hold.
BackpressureInit ==
    /\ config \in [BatchSize : 1..MaxBatchSize,
                   MaxWorkers : 1..MaxWorkerCount]
    /\ ctxDone = FALSE
    /\ dataChan = <<>>
    /\ dataChanClosed = FALSE
    /\ batchChan = <<>>
    /\ batchChanClosed = FALSE
    /\ genPC = "select"
    /\ counter = 0
    /\ sensorData = NoData
    /\ genTicker = FALSE
    /\ batchPC = "select"
    /\ batch = <<>>
    /\ batchTicker = FALSE
    /\ workerPC = [w \in 1..config.MaxWorkers |-> "select"]
    /\ startPC = "waitCtx"
    /\ closeCalls = 0
    /\ closeErr = FALSE
    /\ startErr = FALSE
    /\ accepted = <<>>
    /\ acceptedAtCancel = <<>>
    /\ taken = <<>>
    /\ emitted = <<>>
    /\ delivered = <<>>
    /\ publishErrors = 0
    /\ workerBatch = [w \in 1..config.MaxWorkers |-> <<>>]
    /\ sinkCalls = {}
    /\ inProgress = 0
    /\ envLimit = InFlightBound + SinkReturns * config.BatchSize + 1
    /\ call = NoCall

\* PublishBatch returns for the first SinkReturns calls and hangs afterwards.
SinkReturn(w) ==
    /\ Len(delivered) <= SinkReturns
    /\ WorkerPublishReturn(w)

BackpressureNext ==
    \/ GenTickerFire
    \/ BatchTickerFire
    \/ GenTick
    \/ GenSend
    \/ BatchRecv
    \/ BatchTick
    \/ BatchSend
    \/ \E w \in Workers : WorkerRecv(w)
    \/ \E w \in Workers : WorkerPublish(w)
    \/ \E w \in Workers : SinkReturn(w)

\* the production ticker keeps ticking and every goroutine that can take a
\* step eventually takes it; nothing is assumed about the sink
BackpressureFairness ==
    /\ WF_vars(GenTickerFire)
    /\ WF_vars(GenTick)
    /\ WF_vars(GenSend)
    /\ WF_vars(BatchRecv)
    /\ WF_vars(BatchSend)
    /\ \A w \in 1..MaxWorkerCount :
         /\ WF_vars(w \in Workers /\ WorkerRecv(w))
         /\ WF_vars(w \in Workers /\ WorkerPublish(w))

BackpressureSpec ==
    BackpressureInit /\ [][BackpressureNext]_vars /\ BackpressureFairness

\* envelopes in the batches of PublishBatch calls that have not returned
RECURSIVE PublishingEnvelopes(_)
PublishingEnvelopes(ws) ==
    IF ws = {} THEN 0
    ELSE LET w == CHOOSE x \in ws : TRUE
         IN (IF workerPC[w] = "publishing" THEN Len(workerBatch[w]) ELSE 0)
              + PublishingEnvelopes(ws \ {w})

\* envelopes sent on dataChan and not yet passed to a PublishBatch call
\* that has returned
InFlight ==
    Len(accepted)
      - (Len(Flatten(delivered)) - PublishingEnvelopes(Workers))

\* the generator is blocked in its send on a full dataChan
GenBlocked ==
    /\ genPC = "send"
    /\ Len(dataChan) = DataChanCap
    /\ ~ENABLED (GenSend \/ GenSendCtxDone \/ GenTick \/ GenCtxDone)

\* C25: dataChan never holds more than its capacity (100, here DataChanCap)
\* and batchChan never more than its capacity (10, here BatchChanCap); the
\* envelopes accepted and not yet passed to a returned PublishBatch call
\* never exceed cap(dataChan) + B * (cap(batchChan) + 1 + W); and when the
\* sink stops returning the generator ends up blocked in its send for good.
C25_Backpressure ==
    /\ [](/\ Len(dataChan) <= DataChanCap
          /\ Len(batchChan) <= BatchChanCap
          /\ InFlight <= InFlightBound)
    /\ <>[]GenBlocked

C25_Witness ==
    /\ InFlight = InFlightBound
    /\ GenBlocked
    /\ Len(delivered) = SinkReturns + 1

\* --------------------------------------------------------------- C26
\* C26: when an append has filled the batch, the batcher's next step sends
\* that batch on batchChan (no tick and no further envelope is taken
\* first); and whenever the batcher waits in its select the batch holds
\* fewer than BatchSize envelopes.
C26_FullBatchEnqueuedNext ==
    /\ [](batchPC = "select" => Len(batch) < config.BatchSize)
    /\ [][batchPC = "sendFull" =>
            /\ taken' = taken
            /\ batchPC' # "sendFull" =>
                 (emitted' = Append(emitted, batch) /\ batchPC' = "select")]_vars

\* --------------------------------------------------------------- C27
\* C27: on a batch-timeout tick with a non-empty batch the batcher's next
\* step sends the batch on batchChan and starts a new empty batch; with an
\* empty batch the tick changes nothing but the consumed tick; in both
\* cases the batcher is back in its select, where later ticks arrive.
C27_TimeoutFlush ==
    /\ [][batchPC = "sendTick" =>
            /\ taken' = taken
            /\ batchPC' # "sendTick" =>
                 /\ emitted' = Append(emitted, batch)
                 /\ batch' = NewBatch
                 /\ batchPC' = "select"]_vars
    /\ [][(batchPC = "select" /\ batchTicker /\ ~batchTicker'
             /\ ~HasData(batch)) =>
            /\ batchPC' \in {"select", "done"}
            /\ batch' = batch
            /\ emitted' = emitted
            /\ batchChan' = batchChan]_vars

\* --------------------------------------------------------------- C28
\* a batch was passed to PublishBatch before a batch emitted earlier
OutOfOrder ==
    \E i, j \in 1..Len(delivered) :
        /\ i < j
        /\ IndexOf(emitted, delivered[i]) > IndexOf(emitted, delivered[j])

\* C28: the order of the PublishBatch calls can differ from the order in
\* which the batcher emitted the batches, and it does so only when more
\* than one worker runs (the reachable out-of-order run is C28_Witness).
C28_ReorderNeedsWorkers ==
    /\ \A i \in 1..Len(delivered) : delivered[i] \in Range(emitted)
    /\ OutOfOrder => config.MaxWorkers > 1

C28_Witness ==
    /\ config.MaxWorkers > 1
    /\ Len(emitted) >= 2
    /\ Len(delivered) >= 2
    /\ delivered[1] = emitted[2]
    /\ delivered[2] = emitted[1]

\* --------------------------------------------------------------- C29
\* C29: the only Publisher methods the engine ever calls are PublishBatch
\* (once per delivered batch) and Close; Publish is never among the calls,
\* whatever way the run shuts down.
C29_OnlyPublishBatchAndClose ==
    /\ "Publish" \notin sinkCalls
    /\ sinkCalls \subseteq {"PublishBatch", "Close"}
    /\ ("PublishBatch" \in sinkCalls) <=> (delivered # <<>>)
    /\ ("Close" \in sinkCalls) <=> (closeCalls > 0)

C29_Witness ==
    /\ startPC = "returned"
    /\ sinkCalls = {"PublishBatch", "Close"}
    /\ \E i \in 1..Len(delivered) : Len(delivered[i]) = 1

QualityCount(q) == Cardinality({r \in Draws : determineQuality(r) = q})

C32_NoSendOnClosedNoDoubleClose ==
    /\ [](dataChanClosed => genPC \notin {"select", "send"})
    /\ [](batchChanClosed =>
            batchPC \notin {"select", "sendFull", "sendTick", "sendCancel",
                            "sendClosed"})
    /\ [][dataChanClosed =>
            /\ dataChanClosed'
            /\ accepted' = accepted
            /\ ~(startPC = "waitData" /\ startPC' # "waitData")]_vars
    /\ [][batchChanClosed =>
            /\ batchChanClosed'
            /\ emitted' = emitted
            /\ ~(startPC = "waitBatch" /\ startPC' # "waitBatch")]_vars
    /\ [](startPC = "returned" => (dataChanClosed /\ batchChanClosed))

C32_Witness ==
    /\ startPC = "returned"
    /\ dataChanClosed
    /\ batchChanClosed
    /\ Len(accepted) = MaxEnvelopes
    /\ Len(emitted) > 0
    /\ Len(accepted) > Len(acceptedAtCancel)

\* --------------------------------------------------------------- C33
\* C33: when Start has returned, the envelopes passed to PublishBatch are
\* exactly the first n accepted envelopes, n being their number, for any
\* worker count: what was lost at shutdown is a suffix of accepted.
C33_DeliveredIsPrefix ==
    startPC = "returned" =>
        LET d == Flatten(delivered)
        IN /\ Len(d) <= Len(accepted)
           /\ Range(d) = Range(SubSeq(accepted, 1, Len(d)))

C33_Witness ==
    /\ startPC = "returned"
    /\ config.MaxWorkers > 1
    /\ OutOfOrder
    /\ Len(Flatten(delivered)) < Len(accepted)

\* --------------------------------------------------------------- C34
\* A run in which the cancellation never fires and every PublishBatch call
\* returns.
SteadyInit ==
    /\ Init
    /\ ~ctxDone

SteadyNext ==
    \/ GenTickerFire
    \/ BatchTickerFire
    \/ GenTick
    \/ GenSend
    \/ BatchRecv
    \/ BatchTick
    \/ BatchSend
    \/ \E w \in Workers : WorkerRecv(w)
    \/ \E w \in Workers : WorkerPublish(w)
    \/ \E w \in Workers : WorkerPublishReturn(w)

\* the batcher and the workers are scheduled fairly, the batch-timeout
\* ticker keeps ticking and every PublishBatch call returns; nothing is
\* assumed about the production ticker
SteadyFairness ==
    /\ WF_vars(BatchTickerFire)
    /\ WF_vars(BatchRecv)
    /\ WF_vars(BatchTick)
    /\ WF_vars(BatchSend)
    /\ \A w \in 1..MaxWorkerCount :
         /\ WF_vars(w \in Workers /\ WorkerRecv(w))
         /\ WF_vars(w \in Workers /\ WorkerPublish(w))
         /\ WF_vars(w \in Workers /\ WorkerPublishReturn(w))

SteadySpec == SteadyInit /\ [][SteadyNext]_vars /\ SteadyFairness

\* C34: without cancellation, with fair scheduling, fair batch-timeout
\* ticks and returning PublishBatch calls, every envelope sent on dataChan
\* is eventually in a batch passed to PublishBatch.
C34_AcceptedEventuallyDelivered ==
    \A n \in 0..(MaxEnvelopes - 1) :
        (SensorID(n) \in Range(accepted))
            ~> (SensorID(n) \in Range(Flatten(delivered)))

C34_Witness ==
    /\ ~ctxDone
    /\ Len(accepted) = MaxEnvelopes
    /\ Range(Flatten(delivered)) = Range(accepted)
    /\ \E i \in 1..Len(delivered) : Len(delivered[i]) < config.BatchSize
    /\ \E i \in 1..Len(delivered) : Len(delivered[i]) = config.BatchSize

\* --------------------------------------------------------------- C35
\* C35: the number of PublishBatch calls that have been made and have not
\* returned is never more than MaxWorkers (so at most 1 with one worker);
\* each of them is the call of a different worker.  With two workers the
\* state with two calls in progress is reachable (C35_Witness).
C35_CallsInProgress ==
    /\ inProgress >= 0
    /\ inProgress <= config.MaxWorkers
    /\ config.MaxWorkers = 1 => inProgress <= 1
    /\ inProgress = Cardinality({w \in Workers : workerPC[w] = "publishing"})

C35_Witness ==
    /\ config.MaxWorkers >= 2
    /\ inProgress = 2
    /\ workerBatch[1] # workerBatch[2]

\* --------------------------------------------------------------- C36
\* A run of an engine with MaxWorkers 0: Start's loop (engine.go:29-32)
\* starts no publishWorker.  The ticker delivers more ticks than the two
\* queues and the batcher can hold.
ZeroWorkerInit ==
    /\ config \in [BatchSize : 1..MaxBatchSize, MaxWorkers : {0}]
    /\ ctxDone = FALSE
    /\ dataChan = <<>>
    /\ dataChanClosed = FALSE
    /\ batchChan = <<>>
    /\ batchChanClosed = FALSE
    /\ genPC = "select"
    /\ counter = 0
    /\ sensorData = NoData
    /\ genTicker = FALSE
    /\ batchPC = "select"
    /\ batch = <<>>
    /\ batchTicker = FALSE
    /\ workerPC = [w \in 1..config.MaxWorkers |-> "select"]
    /\ startPC = "waitCtx"
    /\ closeCalls = 0
    /\ closeErr = FALSE
    /\ startErr = FALSE
    /\ accepted = <<>>
    /\ acceptedAtCancel = <<>>
    /\ taken = <<>>
    /\ emitted = <<>>
    /\ delivered = <<>>
    /\ publishErrors = 0
    /\ workerBatch = [w \in 1..config.MaxWorkers |-> <<>>]
    /\ sinkCalls = {}
    /\ inProgress = 0
    /\ envLimit = DataChanCap + config.BatchSize * (BatchChanCap + 1) + 1
    /\ call = NoCall

ZeroWorkerNext ==
    \/ Cancel
    \/ GenTickerFire
    \/ BatchTickerFire
    \/ GenCtxDone
    \/ GenTick
    \/ GenSend
    \/ GenSendCtxDone
    \/ BatchCtxDone
    \/ BatchRecv
    \/ BatchRecvClosed
    \/ BatchTick
    \/ BatchSend
    \/ BatchSendCtxDone
    \/ StartCtxDone
    \/ StartCloseData
    \/ StartCloseBatch
    \/ StartClosePublisher
    \/ StartReturn

\* the scheduling of LiveSpec, and the production ticker keeps ticking
ZeroWorkerFairness ==
    /\ Fairness
    /\ WF_vars(GenTickerFire)
    /\ WF_vars(GenTick)

ZeroWorkerSpec ==
    ZeroWorkerInit /\ [][ZeroWorkerNext]_vars /\ ZeroWorkerFairness

\* both queues are full, the generator is in its send and the batcher is in
\* the send of a size or timeout flush
Stalled ==
    /\ Len(dataChan) = DataChanCap
    /\ Len(batchChan) = BatchChanCap
    /\ genPC = "send"
    /\ batchPC \in {"sendFull", "sendTick"}

\* C36: with MaxWorkers 0 no batch is ever passed to the publisher; unless
\* the cancellation comes first the run reaches the stall (queues full,
\* generator and batcher in their sends), in which neither the generator
\* nor the batcher has a step before the cancellation; and once the
\* cancellation has fired Start returns, with Close called exactly once.
C36_ZeroWorkers ==
    /\ [](delivered = <<>> /\ "PublishBatch" \notin sinkCalls)
    /\ <>(ctxDone \/ Stalled)
    /\ []((Stalled /\ ~ctxDone) =>
            ~ENABLED (GenCtxDone \/ GenTick \/ GenSend \/ GenSendCtxDone
                        \/ BatchCtxDone \/ BatchRecv \/ BatchRecvClosed
                        \/ BatchTick \/ BatchSend \/ BatchSendCtxDone))
    /\ [](closeCalls <= 1)
    /\ ctxDone ~> (startPC = "returned" /\ closeCalls = 1)

C36_Witness ==
    /\ config.MaxWorkers = 0
    /\ startPC = "returned"
    /\ closeCalls = 1
    /\ Len(dataChan) = DataChanCap
    /\ Len(batchChan) = BatchChanCap
    /\ delivered = <<>>

====
